---- MODULE Spec2Model ----
(***************************************************************************)
(* Model of the win32 DebuggerCore (plugins/DebuggerCore/win32):           *)
(* the session lifecycle (attach, open, detach, kill), the wait loop of    *)
(* wait_debug_event that translates raw OS debug notifications, the thread *)
(* registry threads_, and the process enumerator's parent_pid.             *)
(*                                                                         *)
(* The operating system is modelled by the record os: the debuggee it      *)
(* reports notifications for and the notification that has been reported   *)
(* and not yet continued.  Every OS call and every step whose order        *)
(* matters is appended to trace, the log of the most recent operation.     *)
(***************************************************************************)
EXTENDS Integers, Sequences, FiniteSets, TLC

\* ---------------------------------------------------------------- bounds
MaxPid  == 2      \* process ids of debuggees are 1..MaxPid
MaxTid  == 2      \* thread ids are 1..MaxTid
MaxSnap == 2      \* a process snapshot holds at most MaxSnap entries
MaxSnapPid == 3   \* process ids appearing in a snapshot are 0..MaxSnapPid

Pids == 1..MaxPid
Tids == 1..MaxTid

VARIABLES
    process_,        \* DebuggerCore::process_ (NullProcess when nullptr)
    threads_,        \* keys of DebuggerCore::threads_
    active_thread_,  \* DebuggerCore::active_thread_
    pc,              \* "idle", or "waiting" inside WaitForDebugEvent
    msecs,           \* the timeout of the wait_debug_event call in progress
    os,              \* the OS side of the debug channel
    trace,           \* calls and steps of the most recent operation
    ret,             \* what the most recent operation returned
    op,              \* the most recent operation and its inputs
    pre,             \* process_, threads_, active_thread_ before it
    live,            \* threads reported created and not reported exited
    fault,           \* the last operation used process_ while it was null
    snapshot,        \* the process table CreateToolhelp32Snapshot captures
    snapshotOk,      \* whether CreateToolhelp32Snapshot succeeds
    query,           \* the argument of the last parent_pid call, -1 if none
    parent           \* the result of the last parent_pid call

vars == <<process_, threads_, active_thread_, pc, msecs, os, trace, ret, op,
          pre, live, fault, snapshot, snapshotOk, query, parent>>

coreVars == <<process_, threads_, active_thread_, pc, msecs, os, trace, ret,
              op, pre, live, fault>>
enumVars == <<snapshot, snapshotOk, query, parent>>

\* ------------------------------------------------------------ data shapes
\* DEBUG_EVENT: dwDebugEventCode, dwProcessId, dwThreadId
NoEvent == [code |-> "NONE", pid |-> 0, tid |-> 0]

EventCodes == {"CREATE_THREAD_DEBUG_EVENT", "EXIT_THREAD_DEBUG_EVENT",
               "CREATE_PROCESS_DEBUG_EVENT", "LOAD_DLL_DEBUG_EVENT",
               "EXIT_PROCESS_DEBUG_EVENT", "EXCEPTION_DEBUG_EVENT",
               "RIP_EVENT", "UNLOAD_DLL_DEBUG_EVENT"}

\* a null shared_ptr<IProcess>
NullProcess == [pid |-> 0, hProcess_ |-> "none", lastEvent_ |-> NoEvent]

\* PlatformProcess(core, pid): opens the process by id
PlatformProcessFromPid(pid) ==
    [pid |-> pid, hProcess_ |-> "OpenProcess", lastEvent_ |-> NoEvent]

\* PlatformProcess(core, handle): pid() is the id of the process the handle
\* names
PlatformProcessFromHandle(pid, handle) ==
    [pid |-> pid, hProcess_ |-> handle, lastEvent_ |-> NoEvent]

\* the OS side: the debuggee, how far its notifications have got, the id of
\* its main thread, the notification reported and not yet continued, and
\* the notification reported last
NoDebuggee == [pid |-> 0, phase |-> "none", mainTid |-> 0,
               pending |-> NoEvent, last |-> NoEvent]

\* a process that has just come under debug control
Debuggee(pid, tid) == [pid |-> pid, phase |-> "fresh", mainTid |-> tid,
                       pending |-> NoEvent, last |-> NoEvent]

Call(name, pid, tid, arg, ok) ==
    [call |-> name, pid |-> pid, tid |-> tid, arg |-> arg, ok |-> ok]

Step(name) == Call(name, 0, 0, "", TRUE)

NoRet == [status |-> "none", event |-> NoEvent]
Returns(status, e) == [status |-> status, event |-> e]

NoOp == [name |-> "none", pid |-> 0, tid |-> 0, ok |-> FALSE,
         de |-> NoEvent, arg |-> ""]

Log(w, e) == [w EXCEPT !.trace = Append(@, e)]

\* ------------------------------------------------------------- OS calls
\* ContinueDebugEvent(pid, tid, status): continues the thread that reported
\* the pending notification; fails when (pid, tid) names no such thread
ContinueDebugEvent(w, pid, tid, status) ==
    LET hit == /\ w.os.pending # NoEvent
               /\ w.os.pending.pid = pid
               /\ w.os.pending.tid = tid
        w1  == Log(w, Call("ContinueDebugEvent", pid, tid, status, hit))
    IN  IF hit THEN [w1 EXCEPT !.os.pending = NoEvent] ELSE w1

\* DebugActiveProcessStop(pid): the OS stops debugging pid
DebugActiveProcessStop(w, pid) ==
    LET hit == w.os.pid = pid /\ w.os.phase # "none"
        w1  == Log(w, Call("DebugActiveProcessStop", pid, 0, "", hit))
    IN  IF hit THEN [w1 EXCEPT !.os = NoDebuggee] ELSE w1

\* ---------------------------------------------------- collaborators
\* DebuggerCoreBase::attached
attached(w) == w.process_ # NullProcess

\* DebuggerCoreBase::active_thread
active_thread(w) == w.active_thread_

\* process_-> ... : a use of the target, undefined when process_ is null
use(w) == [w EXCEPT !.fault = @ \/ w.process_ = NullProcess]

\* PlatformProcess::resume(status): replays lastEvent_ to the OS
resume(w, status) ==
    ContinueDebugEvent(w, w.process_.lastEvent_.pid,
                       w.process_.lastEvent_.tid,
                       IF status = "DEBUG_CONTINUE"
                       THEN "DBG_CONTINUE"
                       ELSE "DBG_EXCEPTION_NOT_HANDLED")

\* ------------------------------------------------------------- detach
\* (variant: the OS detach is requested before the final continue)
detach_stopsFirst(w) ==
    IF attached(w)
    THEN LET w1 == Log(w, Step("clear_breakpoints"))
             w2 == DebugActiveProcessStop(w1, w1.process_.pid)
             w3 == ContinueDebugEvent(w2, w2.process_.pid, active_thread(w2),
                                      "DBG_CONTINUE")
             w4 == Log([w3 EXCEPT !.process_ = NullProcess],
                       Step("process_.reset"))
             w5 == Log([w4 EXCEPT !.threads_ = {}], Step("threads_.clear"))
         IN  [w5 EXCEPT !.ret = Returns("Ok", NoEvent)]
    ELSE [w EXCEPT !.ret = Returns("Ok", NoEvent)]

detach(w) ==
    IF attached(w)
    THEN LET w1 == Log(w, Step("clear_breakpoints"))
             w2 == ContinueDebugEvent(w1, w1.process_.pid, active_thread(w1),
                                      "DBG_CONTINUE")
             w3 == DebugActiveProcessStop(w2, w2.process_.pid)
             w4 == Log([w3 EXCEPT !.process_ = NullProcess],
                       Step("process_.reset"))
             w5 == Log([w4 EXCEPT !.threads_ = {}], Step("threads_.clear"))
         IN  [w5 EXCEPT !.ret = Returns("Ok", NoEvent)]
    ELSE [w EXCEPT !.ret = Returns("Ok", NoEvent)]

\* ------------------------------------------------------------- attach
\* ok: DebugActiveProcess(pid) succeeds; tid: the id of the main thread of
\* pid
\* (variant: the earlier session is not detached first)
attach_keepsSession(w, pid, ok, tid) ==
    LET w2 == Log(w, Call("DebugActiveProcess", pid, 0, "", ok))
    IN  IF ok
        THEN [w2 EXCEPT !.os = Debuggee(pid, tid),
                        !.process_ = PlatformProcessFromPid(pid),
                        !.ret = Returns("Ok", NoEvent)]
        ELSE [w2 EXCEPT !.ret = Returns("Error DebuggerCore::attach", NoEvent)]

attach(w, pid, ok, tid) ==
    LET w1 == detach(w)
        w2 == Log(w1, Call("DebugActiveProcess", pid, 0, "", ok))
    IN  IF ok
        THEN [w2 EXCEPT !.os = Debuggee(pid, tid),
                        !.process_ = PlatformProcessFromPid(pid),
                        !.ret = Returns("Ok", NoEvent)]
        ELSE [w2 EXCEPT !.ret = Returns("Error DebuggerCore::attach", NoEvent)]

\* --------------------------------------------------------------- kill
\* terminated: TerminateProcess succeeds
\* (variant: detach runs only when the termination succeeded)
kill_detachOnSuccess(w, terminated) ==
    IF w.process_ # NullProcess
    THEN LET w1 == Log(w, Call("TerminateProcess", w.process_.pid, 0,
                               w.process_.hProcess_, terminated))
             w2 == IF terminated THEN detach(w1) ELSE w1
         IN  [w2 EXCEPT !.ret = Returns("void", NoEvent)]
    ELSE [w EXCEPT !.ret = Returns("void", NoEvent)]

kill(w, terminated) ==
    IF w.process_ # NullProcess
    THEN LET w1 == Log(w, Call("TerminateProcess", w.process_.pid, 0,
                               w.process_.hProcess_, terminated))
             w2 == detach(w1)
         IN  [w2 EXCEPT !.ret = Returns("void", NoEvent)]
    ELSE [w EXCEPT !.ret = Returns("void", NoEvent)]

\* --------------------------------------------------------------- open
\* QFileInfo(path).canonicalPath(): the directory of the file
canonicalPath(path) ==
    CASE path = "C:/a/x.exe" -> "C:/a"
      [] OTHER -> ""

\* the inputs of open() the model draws from
Paths == {"C:/a/x.exe"}
Cwds  == {"", "C:/w"}
ArgLists == {<<>>, <<"-v">>}

\* a call without working directory and arguments, and one with both
OpenInputs ==
    {inp \in [path : Paths, cwd : Cwds, args : ArgLists] :
        (inp.cwd = "") <=> (inp.args = <<>>)}

\* the working directory defaults to the directory of the executable
tcwd(path, cwd) == IF cwd = "" THEN canonicalPath(path) ELSE cwd

RECURSIVE join(_)
join(args) == IF args = <<>> THEN "" ELSE " " \o Head(args) \o join(Tail(args))

\* argv[0] in quotes, then each argument after a blank
command_str(path, args) == "\"" \o canonicalPath(path) \o "\"" \o join(args)

\* ok: CreateProcessW succeeds; pid, tid: process_info.dwProcessId and
\* process_info.dwThreadId of the new process
\* (variant: active_thread_ is not set from process_info.dwThreadId)
created_keepsActiveThread(w, pid, tid) ==
    LET a == [w EXCEPT !.os = Debuggee(pid, tid)]
        b == Log(a, Call("CloseHandle", pid, tid,
                         "process_info.hThread", TRUE))
        c == Log(b, Call("set_debug_privilege", pid, 0,
                         "process_info.hProcess", TRUE))
    IN  [c EXCEPT !.process_ = PlatformProcessFromHandle(
                       pid, "process_info.hProcess")]

\* the body of if(CreateProcessW(...)) { ... }
created(w, pid, tid) ==
    LET a == [w EXCEPT !.active_thread_ = tid, !.os = Debuggee(pid, tid)]
        b == Log(a, Call("CloseHandle", pid, tid,
                         "process_info.hThread", TRUE))
        c == Log(b, Call("set_debug_privilege", pid, 0,
                         "process_info.hProcess", TRUE))
    IN  [c EXCEPT !.process_ = PlatformProcessFromHandle(
                       pid, "process_info.hProcess")]

\* the calls up to and including CreateProcessW
spawn(w, path, cwd, args, ok, pid, tid) ==
    LET w1 == detach(w)
        w2 == Log(w1, Step("GetEnvironmentStringsW"))
        w3 == Log(w2, Call("new command_path", 0, 0,
                           command_str(path, args), TRUE))
    IN  Log(w3, Call("CreateProcessW", IF ok THEN pid ELSE 0,
                     IF ok THEN tid ELSE 0, tcwd(path, cwd), ok))

\* (variant: the failure path returns before the buffers are released)
open_leaksOnFailure(w, path, cwd, args, ok, pid, tid) ==
    LET w4 == spawn(w, path, cwd, args, ok, pid, tid)
    IN  IF ok
        THEN LET w5 == created(w4, pid, tid)
                 w6 == Log(w5, Step("delete[] command_path"))
                 w7 == Log(w6, Step("FreeEnvironmentStringsW"))
             IN  [w7 EXCEPT !.ret = Returns("Ok", NoEvent)]
        ELSE [w4 EXCEPT !.ret = Returns("Error DebuggerCore::open", NoEvent)]

open(w, path, cwd, args, ok, pid, tid) ==
    LET w4 == spawn(w, path, cwd, args, ok, pid, tid)
        w5 == IF ok THEN created(w4, pid, tid) ELSE w4
        w6 == Log(w5, Step("delete[] command_path"))
        w7 == Log(w6, Step("FreeEnvironmentStringsW"))
    IN  IF ok
        THEN [w7 EXCEPT !.ret = Returns("Ok", NoEvent)]
        ELSE [w7 EXCEPT !.ret = Returns("Error DebuggerCore::open", NoEvent)]

\* ---------------------------------------------------- wait_debug_event
\* case CREATE_THREAD_DEBUG_EVENT
on_create_thread(w, de) ==
    [w EXCEPT !.threads_ = @ \cup {w.active_thread_}]

\* (variant: the entry of the exited thread is kept)
on_exit_thread_keepsEntry(w, de) == w

\* case EXIT_THREAD_DEBUG_EVENT
on_exit_thread(w, de) ==
    [w EXCEPT !.threads_ = @ \ {w.active_thread_}]

\* case CREATE_PROCESS_DEBUG_EVENT
on_create_process(w, de) ==
    LET w1 == Log(w, Call("CloseHandle", de.pid, de.tid,
                          "CreateProcessInfo.hFile", TRUE))
        w2 == [w1 EXCEPT !.process_ = PlatformProcessFromHandle(
                               de.pid, "CreateProcessInfo.hProcess")]
    IN  [w2 EXCEPT !.threads_ = @ \cup {w.active_thread_}]

\* (variant: the file handle of the module is not closed)
on_load_dll_leaksFile(w, de) == w

\* case LOAD_DLL_DEBUG_EVENT
on_load_dll(w, de) ==
    Log(w, Call("CloseHandle", de.pid, de.tid, "LoadDll.hFile", TRUE))

\* (variant: the target is discarded before the final resume)
on_exit_process_resetFirst(w, de) ==
    LET w1 == Log([w EXCEPT !.process_ = NullProcess], Step("process_.reset"))
        w2 == resume(use(w1), "DEBUG_CONTINUE")
    IN  [w2 EXCEPT !.propagate = TRUE]

\* (variant: propagate is not set, so the pass goes on to the auto-resume)
on_exit_process_noPropagate(w, de) ==
    LET w1 == resume(use(w), "DEBUG_CONTINUE")
    IN  Log([w1 EXCEPT !.process_ = NullProcess], Step("process_.reset"))

\* case EXIT_PROCESS_DEBUG_EVENT
on_exit_process(w, de) ==
    LET w1 == resume(use(w), "DEBUG_CONTINUE")
        w2 == Log([w1 EXCEPT !.process_ = NullProcess],
                  Step("process_.reset"))
    IN  [w2 EXCEPT !.propagate = TRUE]

\* case EXCEPTION_DEBUG_EVENT
on_exception(w, de) == [w EXCEPT !.propagate = TRUE]

\* (variant: RIP_EVENT falls into the exception case)
dispatch_ripFallsThrough(w, de) ==
    CASE de.code = "CREATE_THREAD_DEBUG_EVENT" -> on_create_thread(w, de)
      [] de.code = "EXIT_THREAD_DEBUG_EVENT" -> on_exit_thread(w, de)
      [] de.code = "CREATE_PROCESS_DEBUG_EVENT" -> on_create_process(w, de)
      [] de.code = "LOAD_DLL_DEBUG_EVENT" -> on_load_dll(w, de)
      [] de.code = "EXIT_PROCESS_DEBUG_EVENT" -> on_exit_process(w, de)
      [] de.code = "EXCEPTION_DEBUG_EVENT" -> on_exception(w, de)
      [] de.code = "RIP_EVENT" -> on_exception(w, de)
      [] OTHER -> w

\* the switch on de.dwDebugEventCode
dispatch(w, de) ==
    CASE de.code = "CREATE_THREAD_DEBUG_EVENT" -> on_create_thread(w, de)
      [] de.code = "EXIT_THREAD_DEBUG_EVENT" -> on_exit_thread(w, de)
      [] de.code = "CREATE_PROCESS_DEBUG_EVENT" -> on_create_process(w, de)
      [] de.code = "LOAD_DLL_DEBUG_EVENT" -> on_load_dll(w, de)
      [] de.code = "EXIT_PROCESS_DEBUG_EVENT" -> on_exit_process(w, de)
      [] de.code = "EXCEPTION_DEBUG_EVENT" -> on_exception(w, de)
      [] de.code = "RIP_EVENT" -> w
      [] OTHER -> w

\* p->lastEvent_ = de, when process_ is not null
stamp(w, de) ==
    IF w.process_ # NullProcess
    THEN [w EXCEPT !.process_.lastEvent_ = de]
    ELSE w

\* WaitForDebugEvent is called and blocks; the log entry records the
\* notification that is still waiting to be continued at that moment
WaitForDebugEvent(w) ==
    [Log(w, Call("WaitForDebugEvent", w.os.pending.pid, w.os.pending.tid,
                 w.os.pending.code, TRUE))
       EXCEPT !.blocked = TRUE]

\* the first test of wait_debug_event and the first call of
\* WaitForDebugEvent
\* (variant: the loop is entered without the attached() test)
wait_debug_event_unguarded(w, ms) == WaitForDebugEvent(w)

wait_debug_event(w, ms) ==
    IF attached(w)
    THEN WaitForDebugEvent(w)
    ELSE [w EXCEPT !.ret = Returns("nullptr", NoEvent)]

\* (variant: the resume is issued before the propagate test)
wait_event_resumesFirst(w, de) ==
    LET w1 == [use(w) EXCEPT !.active_thread_ = de.tid, !.propagate = FALSE]
        w2 == dispatch(w1, de)
        w3 == resume(use(stamp(w2, de)), "DEBUG_EXCEPTION_NOT_HANDLED")
    IN  IF w3.propagate
        THEN [Log(w3, Step("return")) EXCEPT !.ret = Returns("event", de)]
        ELSE WaitForDebugEvent(w3)

\* (variant: an absorbed notification is not resumed before the next wait)
wait_event_noAutoResume(w, de) ==
    LET w1 == [use(w) EXCEPT !.active_thread_ = de.tid, !.propagate = FALSE]
        w2 == dispatch(w1, de)
        w3 == stamp(w2, de)
    IN  IF w3.propagate
        THEN [Log(w3, Step("return")) EXCEPT !.ret = Returns("event", de)]
        ELSE WaitForDebugEvent(w3)

\* one pass of the loop body: WaitForDebugEvent has returned de
wait_event(w, de) ==
    LET w1 == [use(w) EXCEPT !.active_thread_ = de.tid, !.propagate = FALSE]
        w2 == dispatch(w1, de)
        w3 == stamp(w2, de)
    IN  IF w3.propagate
        THEN [Log(w3, Step("return")) EXCEPT !.ret = Returns("event", de)]
        ELSE WaitForDebugEvent(resume(use(w3), "DEBUG_EXCEPTION_NOT_HANDLED"))

\* WaitForDebugEvent returns FALSE: the bounded wait has expired
wait_timeout(w) == [w EXCEPT !.ret = Returns("nullptr", NoEvent)]

\* ---------------------------------------------------------- parent_pid
NoParent == 1

\* the do/while over Process32FirstW / Process32NextW
RECURSIVE scan(_, _)
scan(entries, pid) ==
    IF entries = <<>> THEN NoParent
    ELSE IF pid = Head(entries).th32ProcessID
         THEN Head(entries).th32ParentProcessID
         ELSE scan(Tail(entries), pid)

\* (variant: the entry Process32FirstW returns is not examined)
parent_pid_skipsFirst(entries, snapOk, pid) ==
    IF snapOk /\ entries # <<>> THEN scan(Tail(entries), pid) ELSE NoParent

\* snapOk: CreateToolhelp32Snapshot returns a valid handle
parent_pid(entries, snapOk, pid) ==
    IF snapOk THEN scan(entries, pid) ELSE NoParent

\* -------------------------------------------------------- the OS side
\* the notifications the OS can report next: the first one of a debuggee
\* is its process-created notification, none follows its process exit, and
\* none is reported while an earlier one has not been continued
Deliverable ==
    IF os.pending # NoEvent THEN {}
    ELSE IF os.phase = "fresh"
         THEN {[code |-> "CREATE_PROCESS_DEBUG_EVENT", pid |-> os.pid,
                tid |-> os.mainTid]}
    ELSE IF os.phase = "running"
         THEN {[code |-> c, pid |-> os.pid, tid |-> t] :
                  c \in EventCodes \ {"CREATE_PROCESS_DEBUG_EVENT"},
                  t \in Tids}
    ELSE {}

Report(o, de) ==
    [o EXCEPT !.pending = de,
              !.last = de,
              !.phase = CASE de.code = "CREATE_PROCESS_DEBUG_EVENT" -> "running"
                          [] de.code = "EXIT_PROCESS_DEBUG_EVENT" -> "exited"
                          [] OTHER -> @]

\* -------------------------------------------------------------- actions
World == [process_ |-> process_, threads_ |-> threads_,
          active_thread_ |-> active_thread_, os |-> os, trace |-> <<>>,
          ret |-> NoRet, propagate |-> FALSE, blocked |-> FALSE,
          fault |-> FALSE]

Pre == [process_ |-> process_, threads_ |-> threads_,
        active_thread_ |-> active_thread_]

\* the threads the notifications seen so far report as created and not
\* exited, after one more notification
Seen(l, de) ==
    CASE de.code \in {"CREATE_THREAD_DEBUG_EVENT",
                      "CREATE_PROCESS_DEBUG_EVENT"} -> l \cup {de.tid}
      [] de.code = "EXIT_THREAD_DEBUG_EVENT" -> l \ {de.tid}
      [] OTHER -> l

Commit(w, o, ms) ==
    /\ process_' = w.process_
    /\ threads_' = w.threads_
    /\ active_thread_' = w.active_thread_
    /\ os' = w.os
    /\ trace' = w.trace
    /\ ret' = w.ret
    /\ pc' = IF w.blocked THEN "waiting" ELSE "idle"
    /\ msecs' = ms
    /\ op' = o
    /\ pre' = Pre
    /\ live' = Seen(live, o.de)
    /\ fault' = w.fault
    /\ UNCHANGED enumVars

Attach ==
    /\ pc = "idle"
    /\ \E pid \in Pids :
         \/ \E tid \in Tids :
              Commit(attach(World, pid, TRUE, tid),
                     [NoOp EXCEPT !.name = "attach", !.pid = pid,
                                  !.ok = TRUE], 0)
         \/ Commit(attach(World, pid, FALSE, 0),
                   [NoOp EXCEPT !.name = "attach", !.pid = pid], 0)

Detach ==
    /\ pc = "idle"
    /\ Commit(detach(World), [NoOp EXCEPT !.name = "detach"], 0)

Kill ==
    /\ pc = "idle"
    /\ \E terminated \in BOOLEAN :
         Commit(kill(World, terminated),
                [NoOp EXCEPT !.name = "kill", !.ok = terminated], 0)

Open ==
    /\ pc = "idle"
    /\ \E inp \in OpenInputs :
         \/ \E pid \in Pids, tid \in Tids :
              Commit(open(World, inp.path, inp.cwd, inp.args, TRUE, pid, tid),
                     [NoOp EXCEPT !.name = "open", !.pid = pid, !.tid = tid,
                                  !.ok = TRUE, !.arg = inp.path], 0)
         \/ Commit(open(World, inp.path, inp.cwd, inp.args, FALSE, 0, 0),
                   [NoOp EXCEPT !.name = "open", !.arg = inp.path], 0)

\* the caller resumes the target after a propagated event
Resume ==
    /\ pc = "idle"
    /\ process_ # NullProcess
    /\ \E status \in {"DEBUG_CONTINUE", "DEBUG_EXCEPTION_NOT_HANDLED"} :
         Commit([resume(World, status) EXCEPT !.ret = Returns("Ok", NoEvent)],
                [NoOp EXCEPT !.name = "resume", !.arg = status], 0)

WaitDebugEvent ==
    /\ pc = "idle"
    /\ \E ms \in {0, 1} :
         Commit(wait_debug_event(World, ms),
                [NoOp EXCEPT !.name = "wait_debug_event", !.tid = ms], ms)

WaitEvent ==
    /\ pc = "waiting"
    /\ \E de \in Deliverable :
         Commit(wait_event([World EXCEPT !.os = Report(os, de)], de),
                [NoOp EXCEPT !.name = "wait_event", !.de = de], msecs)

\* (variant: a timeout of 0 is passed on as it is, not as INFINITE)
WaitTimeout_zeroExpires ==
    /\ pc = "waiting"
    /\ Commit(wait_timeout(World), [NoOp EXCEPT !.name = "wait_timeout"], 0)

WaitTimeout ==
    /\ pc = "waiting"
    /\ msecs # 0
    /\ Commit(wait_timeout(World), [NoOp EXCEPT !.name = "wait_timeout"], 0)

Init ==
    /\ process_ = NullProcess
    /\ threads_ = {}
    /\ active_thread_ \in 0..MaxTid   \* the constructor does not set it
    /\ pc = "idle"
    /\ msecs = 0
    /\ os = NoDebuggee
    /\ trace = <<>>
    /\ ret = NoRet
    /\ op = NoOp
    /\ pre = [process_ |-> NullProcess, threads_ |-> {}, active_thread_ |-> 0]
    /\ live = {}
    /\ fault = FALSE
    /\ snapshot = <<>>
    /\ snapshotOk = TRUE
    /\ query = -1
    /\ parent = 0

Next ==
    \/ Attach
    \/ Detach
    \/ Kill
    \/ Open
    \/ Resume
    \/ WaitDebugEvent
    \/ WaitEvent
    \/ WaitTimeout

Spec == Init /\ [][Next]_vars

\* WaitForDebugEvent returns a notification whose code is in codes: the
\* step of WaitEvent that records it in op
Delivered(codes) ==
    /\ pc = "waiting"
    /\ \E de \in Deliverable :
         /\ de.code \in codes
         /\ op' = [NoOp EXCEPT !.name = "wait_event", !.de = de]

\* fair delivery: a blocked WaitForDebugEvent is handed the process-created
\* notification of a new debuggee, and a target that keeps being resumed
\* raises an exception or exits in the end
FairSpec ==
    /\ Spec
    /\ WF_op(Delivered({"CREATE_PROCESS_DEBUG_EVENT"}))
    /\ WF_op(Delivered({"EXCEPTION_DEBUG_EVENT", "EXIT_PROCESS_DEBUG_EVENT"}))

\* ------------------------------------------------ the enumerator alone
SnapPids == 0..MaxSnapPid

Entries == [th32ProcessID : SnapPids, th32ParentProcessID : SnapPids]

\* the OS lists every process once
Snapshots ==
    {s \in UNION {[1..n -> Entries] : n \in 0..MaxSnap} :
        \A i, j \in DOMAIN s : i # j => s[i].th32ProcessID # s[j].th32ProcessID}

InitEnum ==
    /\ process_ = NullProcess
    /\ threads_ = {}
    /\ active_thread_ = 0
    /\ pc = "idle"
    /\ msecs = 0
    /\ os = NoDebuggee
    /\ trace = <<>>
    /\ ret = NoRet
    /\ op = NoOp
    /\ pre = [process_ |-> NullProcess, threads_ |-> {}, active_thread_ |-> 0]
    /\ live = {}
    /\ fault = FALSE
    /\ snapshot \in Snapshots
    /\ snapshotOk \in BOOLEAN
    /\ query = -1
    /\ parent = 0

ParentPid ==
    /\ \E pid \in SnapPids :
         /\ query' = pid
         /\ parent' = parent_pid(snapshot, snapshotOk, pid)
    /\ UNCHANGED <<snapshot, snapshotOk>>
    /\ UNCHANGED coreVars

NextEnum == ParentPid

SpecEnum == InitEnum /\ [][NextEnum]_vars

\* ============================================================ properties
is_attached == attached([process_ |-> process_])
was_attached == attached([process_ |-> pre.process_])

\* positions of the calls named name in the log of the last operation
At(name) == {i \in DOMAIN trace : trace[i].call = name}

Resumes == At("ContinueDebugEvent")

Closes(h) == {i \in At("CloseHandle") : trace[i].arg = h}

Translated(code) == op.name = "wait_event" /\ op.de.code = code

Absorbed == {"CREATE_THREAD_DEBUG_EVENT", "EXIT_THREAD_DEBUG_EVENT",
             "CREATE_PROCESS_DEBUG_EVENT", "LOAD_DLL_DEBUG_EVENT",
             "RIP_EVENT", "UNLOAD_DLL_DEBUG_EVENT"}

\* C1: after attach(pid), if DebugActiveProcess succeeded the core is
\* attached and process_ is not null; if it failed the core is not attached,
\* the attach error is returned and threads_ has gained no entry.
C1_AttachOutcome ==
    op.name = "attach" =>
        /\ op.ok => /\ is_attached
                    /\ process_ # NullProcess
                    /\ process_.pid = op.pid
                    /\ ret.status = "Ok"
        /\ ~op.ok => /\ ~is_attached
                     /\ process_ = NullProcess
                     /\ ret.status = "Error DebuggerCore::attach"
                     /\ threads_ \subseteq pre.threads_

\* a failing attach issued while a session with known threads was attached
C1_Witness ==
    /\ op.name = "attach"
    /\ ~op.ok
    /\ was_attached
    /\ pre.threads_ # {}

\* C2: every detach() returns success and leaves threads_ empty, whatever
\* state it is called in (so also the second of two calls in a row).
C2_DetachLeavesRegistryEmpty ==
    op.name = "detach" => ret.status = "Ok" /\ threads_ = {}

\* C3: when a process-created notification has been translated, threads_
\* holds exactly the thread id that notification reported.
C3_OneThreadAfterCreateProcess ==
    Translated("CREATE_PROCESS_DEBUG_EVENT") => threads_ = {op.de.tid}

\* C4: a notification that is neither an exception nor a process exit is
\* not returned: the pass issues exactly one resume, with
\* DBG_EXCEPTION_NOT_HANDLED and for the thread that reported it, and then
\* calls WaitForDebugEvent again.
C4_AbsorbedIsAutoResumed ==
    (op.name = "wait_event" /\ op.de.code \in Absorbed) =>
        /\ ret = NoRet
        /\ pc = "waiting"
        /\ Cardinality(Resumes) = 1
        /\ \A i \in Resumes :
              /\ trace[i].arg = "DBG_EXCEPTION_NOT_HANDLED"
              /\ trace[i].pid = op.de.pid
              /\ trace[i].tid = op.de.tid
              /\ trace[i].ok
              /\ i = Len(trace) - 1
        /\ trace[Len(trace)].call = "WaitForDebugEvent"
        /\ os.pending = NoEvent

\* a thread-created notification absorbed by the loop
C4_Witness ==
    /\ Translated("CREATE_THREAD_DEBUG_EVENT")
    /\ pc = "waiting"
    /\ Resumes # {}

\* C5: an exception notification is returned to the caller as one event
\* carrying its thread id, and the pass issues no resume: the notification
\* is still pending at the OS when the call returns.
C5_ExceptionIsReturnedUnresumed ==
    Translated("EXCEPTION_DEBUG_EVENT") =>
        /\ ret.status = "event"
        /\ ret.event = op.de
        /\ ret.event.tid = active_thread_
        /\ pc = "idle"
        /\ Cardinality(At("return")) = 1
        /\ Resumes = {}
        /\ os.pending = op.de

\* an exception returned from a wait that had been entered while attached
C5_Witness ==
    /\ Translated("EXCEPTION_DEBUG_EVENT")
    /\ ret.status = "event"
    /\ is_attached

\* C6: on a process-exited notification the pass issues one resume with
\* DBG_CONTINUE, then discards process_, then returns the event; the core
\* is not attached afterwards and no DBG_EXCEPTION_NOT_HANDLED resume was
\* issued.
C6_ExitProcessOrder ==
    Translated("EXIT_PROCESS_DEBUG_EVENT") =>
        /\ Len(trace) = 3
        /\ trace[1].call = "ContinueDebugEvent"
        /\ trace[1].arg = "DBG_CONTINUE"
        /\ trace[2].call = "process_.reset"
        /\ trace[3].call = "return"
        /\ ret.status = "event"
        /\ ret.event = op.de
        /\ pc = "idle"
        /\ ~is_attached

\* a process exit translated in a session that was attached
C6_Witness ==
    /\ Translated("EXIT_PROCESS_DEBUG_EVENT")
    /\ was_attached
    /\ ret.event.code = "EXIT_PROCESS_DEBUG_EVENT"

\* C7: after kill() the core is not attached; if it was attached,
\* TerminateProcess is the first call, the whole detach sequence follows it,
\* and it follows also when TerminateProcess failed.
C7_KillEndsDetached ==
    op.name = "kill" =>
        /\ ~is_attached
        /\ process_ = NullProcess
        /\ was_attached =>
              /\ Len(trace) = 6
              /\ trace[1].call = "TerminateProcess"
              /\ trace[2].call = "clear_breakpoints"
              /\ trace[3].call = "ContinueDebugEvent"
              /\ trace[3].arg = "DBG_CONTINUE"
              /\ trace[4].call = "DebugActiveProcessStop"
              /\ trace[5].call = "process_.reset"
              /\ trace[6].call = "threads_.clear"
              /\ threads_ = {}
              /\ os = NoDebuggee

\* kill() of an attached target whose termination failed
C7_Witness ==
    /\ op.name = "kill"
    /\ was_attached
    /\ trace # <<>>
    /\ ~trace[1].ok

\* C8: wait_debug_event called while not attached returns nullptr at once:
\* no WaitForDebugEvent, no resume, and process_, threads_ and
\* active_thread_ are as before.
C8_WaitWhenDetached ==
    (op.name = "wait_debug_event" /\ ~was_attached) =>
        /\ ret.status = "nullptr"
        /\ ret.event = NoEvent
        /\ pc = "idle"
        /\ trace = <<>>
        /\ process_ = pre.process_
        /\ threads_ = pre.threads_
        /\ active_thread_ = pre.active_thread_

\* a wait issued after the target has exited
C8_Witness ==
    /\ op.name = "wait_debug_event"
    /\ ~was_attached
    /\ os.phase = "exited"

\* C9: after open(), if CreateProcessW succeeded the core is attached,
\* process_ wraps process_info.hProcess, active_thread_ is
\* process_info.dwThreadId and process_info.hThread was closed once; if it
\* failed the core is not attached, active_thread_ is as before and the open
\* error is returned.  Either way the command-line copy and the environment
\* block are each acquired once and released once, after CreateProcessW.
C9_OpenOutcome ==
    op.name = "open" =>
        /\ op.ok => /\ is_attached
                    /\ process_.hProcess_ = "process_info.hProcess"
                    /\ process_.pid = op.pid
                    /\ active_thread_ = op.tid
                    /\ Cardinality(Closes("process_info.hThread")) = 1
                    /\ ret.status = "Ok"
        /\ ~op.ok => /\ ~is_attached
                     /\ process_ = NullProcess
                     /\ active_thread_ = pre.active_thread_
                     /\ Closes("process_info.hThread") = {}
                     /\ ret.status = "Error DebuggerCore::open"
        /\ Cardinality(At("new command_path")) = 1
        /\ Cardinality(At("delete[] command_path")) = 1
        /\ Cardinality(At("GetEnvironmentStringsW")) = 1
        /\ Cardinality(At("FreeEnvironmentStringsW")) = 1
        /\ \A i \in At("CreateProcessW") :
              \A j \in At("delete[] command_path")
                         \cup At("FreeEnvironmentStringsW") : i < j

\* a failing open issued while an earlier session was attached
C9_Witness ==
    /\ op.name = "open"
    /\ ~op.ok
    /\ was_attached
    /\ At("FreeEnvironmentStringsW") # {}

\* C10: parent_pid(pid) is the th32ParentProcessID of the snapshot entry
\* whose th32ProcessID is pid when the snapshot was taken and has such an
\* entry, and NoParent otherwise.
C10_ParentOf ==
    query # -1 =>
        LET hits == {i \in DOMAIN snapshot : snapshot[i].th32ProcessID = query}
        IN  IF snapshotOk /\ hits # {}
            THEN \A i \in hits : parent = snapshot[i].th32ParentProcessID
            ELSE parent = NoParent

\* a lookup that found its entry, with a parent other than NoParent, in a
\* snapshot that holds another process too
C10_Witness ==
    /\ query # -1
    /\ snapshotOk
    /\ Len(snapshot) = 2
    /\ snapshot[1].th32ProcessID = query
    /\ parent = snapshot[1].th32ParentProcessID
    /\ parent # NoParent

Requests == At("WaitForDebugEvent")

Sessions == {"attach", "open"}

\* C11: every resume the wait loop issues (the auto-resume and the final
\* continue on process exit) replays the process id and the thread id of
\* the notification being translated.
C11_ResumeReplaysCurrentNotification ==
    op.name = "wait_event" =>
        \A i \in Resumes : /\ trace[i].pid = op.de.pid
                           /\ trace[i].tid = op.de.tid

\* C12: WaitForDebugEvent is never called while a notification received
\* earlier is still waiting to be continued.
C12_NoRequestWhilePending ==
    \A i \in Requests : trace[i].arg = "NONE"

\* C12 (amended): inside the loop, WaitForDebugEvent is called again only
\* after the notification just translated has been continued; the first
\* call of a wait_debug_event finds a notification pending only when that
\* notification is the exception returned to the caller last, which the
\* caller has not resumed.
C12_LoopResumesBeforeNextRequest ==
    /\ op.name = "wait_event" =>
          \A i \in Requests : /\ trace[i].arg = "NONE"
                              /\ os.pending = NoEvent
                              /\ \E j \in Resumes : j < i /\ trace[j].ok
    /\ op.name = "wait_debug_event" =>
          \A i \in Requests :
             trace[i].arg # "NONE" =>
                /\ trace[i].arg = "EXCEPTION_DEBUG_EVENT"
                /\ os.pending = process_.lastEvent_
                /\ os.pending = os.last

\* the loop absorbs a notification in a wait entered after the caller had
\* resumed an exception
C12_Witness ==
    /\ op.name = "wait_event"
    /\ pc = "waiting"
    /\ pre.process_.lastEvent_.code = "EXCEPTION_DEBUG_EVENT"
    /\ Requests # {}

\* C13: threads_ holds threads of the current target only: it is empty
\* whenever the core is not attached, and it is empty right after a
\* successful attach or open.
C13_RegistryOfCurrentTarget ==
    /\ ~is_attached => threads_ = {}
    /\ (op.name \in Sessions /\ op.ok) => threads_ = {}

\* C14: every key of threads_ is a thread that a thread-created or
\* process-created notification has reported and no thread-exited
\* notification has reported since; a thread-exited notification for a thread
\* that is not in threads_ leaves threads_ as it was and is auto-resumed, not
\* returned.
C14_RegistryFollowsNotifications ==
    /\ threads_ \subseteq live
    /\ (Translated("EXIT_THREAD_DEBUG_EVENT")
          /\ op.de.tid \notin pre.threads_) =>
          /\ threads_ = pre.threads_
          /\ ret = NoRet
          /\ pc = "waiting"
          /\ Cardinality(Resumes) = 1
          /\ \A i \in Resumes : trace[i].ok

\* the exit of a thread the registry does not know, while it knows another
C14_Witness ==
    /\ Translated("EXIT_THREAD_DEBUG_EVENT")
    /\ op.de.tid \notin pre.threads_
    /\ pre.threads_ # {}
    /\ threads_ = pre.threads_

\* C15: while attached, once a notification of this session has been
\* observed active_thread_ is the thread id of the latest one; between a
\* successful open and the first notification it is the initial thread id
\* CreateProcessW reported.
C15_ActiveThreadIsLatestReporter ==
    is_attached =>
        IF os.last # NoEvent
        THEN active_thread_ = os.last.tid
        ELSE process_.hProcess_ = "process_info.hProcess" =>
                active_thread_ = os.mainTid

\* an absorbed notification from a thread other than the initial one
C15_Witness ==
    /\ is_attached
    /\ pc = "waiting"
    /\ os.last.code = "LOAD_DLL_DEBUG_EVENT"
    /\ os.last.tid # os.mainTid
    /\ active_thread_ = os.last.tid

\* C16: an attached detach() performs, in this order, clear_breakpoints,
\* ContinueDebugEvent(pid, active thread, DBG_CONTINUE),
\* DebugActiveProcessStop(pid), the discard of process_ and the clear of
\* threads_; a detach() of a detached core performs no step and returns Ok.
C16_DetachSequence ==
    op.name = "detach" =>
        /\ ret.status = "Ok"
        /\ ~is_attached
        /\ IF was_attached
           THEN /\ Len(trace) = 5
                /\ trace[1].call = "clear_breakpoints"
                /\ trace[2].call = "ContinueDebugEvent"
                /\ trace[2].arg = "DBG_CONTINUE"
                /\ trace[2].pid = pre.process_.pid
                /\ trace[2].tid = pre.active_thread_
                /\ trace[3].call = "DebugActiveProcessStop"
                /\ trace[3].pid = pre.process_.pid
                /\ trace[4].call = "process_.reset"
                /\ trace[5].call = "threads_.clear"
                /\ threads_ = {}
                /\ os = NoDebuggee
           ELSE /\ trace = <<>>
                /\ process_ = pre.process_
                /\ threads_ = pre.threads_
        /\ active_thread_ = pre.active_thread_

\* detach() of a session that still had threads registered
C16_Witness ==
    /\ op.name = "detach"
    /\ was_attached
    /\ pre.threads_ # {}
    /\ Len(trace) = 5

FileHandles == {"CreateProcessInfo.hFile", "LoadDll.hFile"}

\* the handle h of the notification just translated was closed once, before
\* the auto-resume and before the next WaitForDebugEvent
ClosedOnce(h) ==
    /\ Cardinality(Closes(h)) = 1
    /\ Resumes # {}
    /\ Requests # {}
    /\ \A i \in Closes(h) :
          /\ trace[i].pid = op.de.pid
          /\ trace[i].tid = op.de.tid
          /\ \A j \in Resumes \cup Requests : i < j
    /\ \A g \in FileHandles \ {h} : Closes(g) = {}

\* C17: the file handle of a process-created or module-loaded notification
\* is closed exactly once, while that notification is translated, before
\* its auto-resume and before the next notification is requested; no other
\* operation closes such a handle.
C17_FileHandleClosedOnce ==
    CASE Translated("CREATE_PROCESS_DEBUG_EVENT") ->
           ClosedOnce("CreateProcessInfo.hFile")
      [] Translated("LOAD_DLL_DEBUG_EVENT") -> ClosedOnce("LoadDll.hFile")
      [] OTHER -> \A g \in FileHandles : Closes(g) = {}

\* a module-loaded notification whose file handle was closed
C17_Witness ==
    /\ Translated("LOAD_DLL_DEBUG_EVENT")
    /\ Closes("LoadDll.hFile") # {}
    /\ pc = "waiting"

Propagated == {"EXCEPTION_DEBUG_EVENT", "EXIT_PROCESS_DEBUG_EVENT"}

\* a wait_debug_event(0) call in progress
Blocking == pc = "waiting" /\ msecs = 0

\* a wait_debug_event(0) call returns only an exception or process-exit event
ReturnsOnlyPropagated ==
    [][(Blocking /\ pc' = "idle") =>
          /\ ret'.status = "event"
          /\ ret'.event.code \in Propagated
          /\ op'.name = "wait_event"]_vars

\* C18 as stated: while attached, a wait_debug_event(0) call never returns
\* "no event", returns only an exception or process-exit event, and, the OS
\* delivering fairly, every such call eventually returns.
C18_BlockingWaitReturns ==
    /\ ReturnsOnlyPropagated
    /\ Blocking ~> (pc = "idle" /\ ret.status = "event")

\* C18: while attached, a wait_debug_event(0) call never returns "no event"
\* and returns only an exception or process-exit event; the OS delivering
\* fairly, a call entered with no notification pending resume eventually
\* returns such an event.
C18_BlockingWaitReturnsIfNonePending ==
    /\ ReturnsOnlyPropagated
    /\ (Blocking /\ os.pending = NoEvent) ~>
          (pc = "idle" /\ ret.status = "event")

\* a wait_debug_event(0) call that returned an event after the loop had
\* absorbed another notification
C18_Witness ==
    /\ op.name = "wait_event"
    /\ pc = "idle"
    /\ msecs = 0
    /\ ret.status = "event"
    /\ ret.event.code \in Propagated
    /\ pre.process_.lastEvent_.code \in Absorbed

\* C19: inside the wait loop the target is never used while it is null:
\* no operation dereferences a null process_, and the loop goes on to another
\* iteration only with a non-null process_, the process-exit notification,
\* the one that discards the target, being returned at once.
C19_TargetNeverUsedWhileNull ==
    /\ ~fault
    /\ pc = "waiting" => process_ # NullProcess
    /\ Translated("EXIT_PROCESS_DEBUG_EVENT") =>
          /\ pc = "idle"
          /\ process_ = NullProcess
          /\ ret.status = "event"
          /\ Requests = {}
          /\ \A i \in Resumes : trace[i].arg = "DBG_CONTINUE"

\* a blocking wait that the process-exit notification ended, the target
\* discarded
C19_Witness ==
    /\ Translated("EXIT_PROCESS_DEBUG_EVENT")
    /\ process_ = NullProcess
    /\ was_attached
    /\ pc = "idle"
    /\ msecs = 0
    /\ ~fault

\* C20: every ContinueDebugEvent the core issues itself (the auto-resume,
\* the final continue on process exit, the final continue of detach) is for
\* the notification pending at that moment, so it succeeds.
C20_EveryContinueHasPendingNotification ==
    op.name # "resume" => \A i \in Resumes : trace[i].ok

====
